---- MODULE Spec2Model ----
(***************************************************************************)
(* A model of scraper.py: the repositories table and its two writers       *)
(* (save_repo_to_db, update_screenshot_path), the README capture routine   *)
(* (capture_readme_screenshot) step by step, and the __main__ driver that  *)
(* sequences them.                                                          *)
(***************************************************************************)
EXTENDS Naturals, Integers, Sequences, FiniteSets, TLC

VARIABLES
    \* --- the repositories table (sqlite) and the wall clock
    table,          \* set of rows of table "repositories"
    clock,          \* datetime.now(), a non-decreasing counter
    lastCall,       \* the store call that ran last, with the table before it
    \* --- the screenshot file name computation
    slugUrl,        \* repo_url handed to the file-name computation
    slugOut,        \* the screenshot_path computed for it
    \* --- the driver (__main__)
    dpc,            \* position of the driver
    candidates,     \* trending_repos_data, as the number of repos found
    idx,            \* loop index of the save loop, then of the capture loop
    results,        \* what capture_readme_screenshot returned, per repo
    tableAtCapture, \* the table when the capture phase began
    \* --- one call of capture_readme_screenshot
    cpc,            \* position inside the call
    repo_url,       \* its argument
    browser,        \* local "browser": 0 is None, else the session launched
    connected,      \* what browser.is_connected() answers
    pwRunning,      \* inside the "with sync_playwright()" block
    closeCalls,     \* number of browser.close() calls made by this call
    attempts,       \* the wait_for_selector calls made, in order, with their outcome
    readme_element, \* 0 is None, else the index of the selector that matched
    shotTaken,      \* readme_element.screenshot() was called
    navigated,      \* page.goto() returned
    imgIn,          \* the decoded screenshot: mode, width, height
    img,            \* local "img": a buffer name or Unbound
    img_to_paste,   \* local "img_to_paste"
    bordered_img,   \* local "bordered_img"
    final_img,      \* local "final_img"
    bufState,       \* buffer name -> "none" | "open" | "closed"
    bufSize,        \* buffer name -> <<width, height>>
    saved_path,     \* local "saved_path"
    written,        \* files final_img.save() wrote during this call
    retval,         \* what the call returned
    failed,         \* the step of this call that failed, "" when none did
    raised          \* an exception left capture_readme_screenshot

dbVars == <<table, clock, lastCall>>
slugVars == <<slugUrl, slugOut>>
drvVars == <<dpc, candidates, idx, results, tableAtCapture>>
sessVars == <<browser, connected, pwRunning, closeCalls>>
locVars == <<attempts, readme_element, shotTaken, navigated>>
imgVars == <<imgIn, img, img_to_paste, bordered_img, final_img, bufState, bufSize>>
outVars == <<saved_path, written, retval, failed, raised>>
capVars == <<cpc, repo_url, sessVars, locVars, imgVars, outVars>>
vars == <<dbVars, slugVars, drvVars, capVars>>

(***************************************************************************)
(* Bounds of the model.                                                    *)
(***************************************************************************)
MaxRepos == 4       \* repos the trending page yields, at most
MaxClock == 1       \* the clock stops advancing here
MaxTail == 4        \* characters of a url after its optional scheme and host
MaxW == 2           \* width of a decoded screenshot, at most
MaxH == 5           \* height of a decoded screenshot, at most
MaxDbUrls == 1      \* urls used by the free sequences of store calls

(***************************************************************************)
(* Values.                                                                 *)
(***************************************************************************)
NULL == "NULL"          \* SQL NULL
None == "None"          \* Python None
Unbound == "unbound"    \* a local name not yet assigned

RECURSIVE Flatten(_)
\* the str made of a sequence of characters
Flatten(s) == IF s = <<>> THEN "" ELSE s[1] \o Flatten(Tail(s))

\* datetime.now().isoformat(): a text form of the clock reading
IsoFormat(t) == <<"T", t>>

(***************************************************************************)
(* File name of a screenshot (lines 158-160).                              *)
(***************************************************************************)
\* \w and '-' : the characters re.sub(r'[^\w\-]+', '_', ...) keeps
IsKept(c) == c \in {"a", "o", "h", "s", "_", "-"}

RECURSIVE SplitSlash(_, _)
\* repo_url.split('/'): cur is the piece being read
SplitSlash(s, cur) ==
    IF s = <<>> THEN <<cur>>
    ELSE IF s[1] = "/" THEN <<cur>> \o SplitSlash(Tail(s), <<>>)
    ELSE SplitSlash(Tail(s), Append(cur, s[1]))

\* [part for part in repo_url.split('/') if part]
RepoParts(url) == SelectSeq(SplitSlash(url, <<>>), LAMBDA p : p # <<>>)

RECURSIVE Sanitize(_, _)
\* re.sub(r'[^\w\-]+', '_', s): inRun says the previous character was replaced
Sanitize(s, inRun) ==
    IF s = <<>> THEN <<>>
    ELSE IF IsKept(s[1]) THEN <<s[1]>> \o Sanitize(Tail(s), FALSE)
    ELSE IF inRun THEN Sanitize(Tail(s), TRUE)
    ELSE <<"_">> \o Sanitize(Tail(s), TRUE)

\* a plausible slip: the first two parts instead of the last two
RepoNameFirstTwo(url) ==
    LET parts == RepoParts(url) IN
    IF Len(parts) >= 2
    THEN parts[1] \o <<"_">> \o parts[2]
    ELSE Sanitize(url, FALSE)

\* repo_name of line 159
RepoName(url) ==
    LET parts == RepoParts(url) IN
    IF Len(parts) >= 2
    THEN parts[Len(parts) - 1] \o <<"_">> \o parts[Len(parts)]
    ELSE Sanitize(url, FALSE)

\* os.path.join(output_dir, name) for a name that does not start with '/'
PathJoin(dir, name) ==
    IF dir = "" THEN name
    ELSE dir \o "/" \o name

\* output_dir="screenshots" (line 142)
OutputDir == "screenshots"

\* screenshot_path of line 160
ScreenshotPathOf(url) ==
    PathJoin(OutputDir, Flatten(RepoName(url)) \o "_readme_4x3.png")

(***************************************************************************)
(* The repositories table (lines 14-72).                                   *)
(***************************************************************************)
\* (SELECT col FROM repositories WHERE url = ?): NULL when no row matches
ScalarSelect(t, col, url) ==
    IF \E r \in t : r.url = url
    THEN (CHOOSE r \in t : r.url = url)[col]
    ELSE NULL

\* a blind overwrite: INSERT OR REPLACE without the four sub-selects
SaveRowsBlind(t, repo, now) ==
    {r \in t : r.url # repo.url} \cup
    {[url |-> repo.url, name |-> repo.name,
      description_trending_page |-> repo.description,
      last_seen_trending |-> now,
      stars |-> NULL, created_at |-> NULL, twitter_handle |-> NULL,
      screenshot_path |-> NULL]}

\* the INSERT OR REPLACE of lines 42-54: the sub-selects read the table as it
\* is before the statement, the row with the same primary key is replaced
SaveRows(t, repo, now) ==
    {r \in t : r.url # repo.url} \cup
    {[url |-> repo.url, name |-> repo.name,
      description_trending_page |-> repo.description,
      last_seen_trending |-> now,
      stars |-> ScalarSelect(t, "stars", repo.url),
      created_at |-> ScalarSelect(t, "created_at", repo.url),
      twitter_handle |-> ScalarSelect(t, "twitter_handle", repo.url),
      screenshot_path |-> ScalarSelect(t, "screenshot_path", repo.url)]}

\* "not path" of line 61
Falsy(path) == path = "" \/ path = None

\* the UPDATE without the guard of lines 61-62
UpdateRowsUnguarded(t, url, path) ==
    {IF r.url = url THEN [r EXCEPT !.screenshot_path = path] ELSE r : r \in t}

\* the UPDATE of lines 65-69 without its WHERE clause
UpdateRowsEveryRow(t, url, path) ==
    IF Falsy(path) THEN t
    ELSE {[r EXCEPT !.screenshot_path = path] : r \in t}

\* update_screenshot_path (lines 59-72)
UpdateRows(t, url, path) ==
    IF Falsy(path) THEN t
    ELSE {IF r.url = url THEN [r EXCEPT !.screenshot_path = path] ELSE r : r \in t}

(***************************************************************************)
(* The repos the trending page yields (lines 111-127).                     *)
(***************************************************************************)
\* the url of the i-th repo: https://github.com/<owner>/<repo>
UrlOf(i) == <<"s", ":", "/", "/", "h", "/", "o", "/">> \o [j \in 1..i |-> "a"]

\* repo_name = repo_url_path.strip('/')
NameOf(i) == Flatten(<<"o", "/">> \o [j \in 1..i |-> "a"])

\* the dict appended at line 127
RepoOf(i, desc) == [url |-> UrlOf(i), name |-> NameOf(i), description |-> desc]

(***************************************************************************)
(* Initial values.                                                         *)
(***************************************************************************)
\* a row left in the database file by an earlier run, possibly enriched by
\* whatever fills stars, created_at and twitter_handle, possibly captured
OldRows ==
    {[url |-> UrlOf(1), name |-> "old/name",
      description_trending_page |-> "old text",
      last_seen_trending |-> IsoFormat(0),
      stars |-> st, created_at |-> cr, twitter_handle |-> tw,
      screenshot_path |-> sp] :
        st \in {NULL, "42"}, cr \in {NULL, "2024-01-01"},
        tw \in {NULL, "@handle"}, sp \in {NULL, "screenshots/old.png"}}

\* the row of a repo that trended once and is not on the page any more
GoneRow ==
    [url |-> UrlOf(0), name |-> "gone/name",
     description_trending_page |-> "gone text",
     last_seen_trending |-> IsoFormat(0),
     stars |-> "7", created_at |-> NULL, twitter_handle |-> NULL,
     screenshot_path |-> "screenshots/gone.png"]

\* the database file when the process starts: absent or empty (init_db creates
\* the table, lines 18-29, IF NOT EXISTS), or holding rows of earlier runs
InitTables == {{}} \cup {{r} : r \in OldRows} \cup {{r, GoneRow} : r \in OldRows}

NoCall == [op |-> "none", url |-> <<>>, path |-> "", now |-> 0,
           name |-> "", description |-> "", before |-> {}]

NoImage == [mode |-> "none", w |-> 0, h |-> 0]
Buffers == {"decoded", "converted", "bordered", "cropped"}

DbIdle == /\ clock = 0
          /\ lastCall = NoCall

SlugIdle == /\ slugUrl = <<>>
            /\ slugOut = Unbound

DrvIdle == /\ dpc = "start"
           /\ candidates = 0
           /\ idx = 0
           /\ results = <<>>
           /\ tableAtCapture = {}

CapIdle == /\ cpc = "idle"
           /\ repo_url = <<>>
           /\ browser = 0
           /\ connected = FALSE
           /\ pwRunning = FALSE
           /\ closeCalls = 0
           /\ attempts = <<>>
           /\ readme_element = 0
           /\ shotTaken = FALSE
           /\ navigated = FALSE
           /\ imgIn = NoImage
           /\ img = Unbound
           /\ img_to_paste = Unbound
           /\ bordered_img = Unbound
           /\ final_img = Unbound
           /\ bufState = [b \in Buffers |-> "none"]
           /\ bufSize = [b \in Buffers |-> <<0, 0>>]
           /\ saved_path = None
           /\ written = {}
           /\ retval = Unbound
           /\ failed = ""
           /\ raised = FALSE

(***************************************************************************)
(* SpecDb: any sequence of save_repo_to_db and update_screenshot_path      *)
(* calls on the table.                                                     *)
(***************************************************************************)
DbUrls == 1..MaxDbUrls
DbDescriptions == {"d1", "d2"}
DbPaths == {"", None, "screenshots/p1.png", "screenshots/p2.png"}

\* save_repo_to_db(repo_data): lines 34-57
DbSave(i, desc) ==
    \E now \in clock..MaxClock :
        /\ table' = SaveRows(table, RepoOf(i, desc), IsoFormat(now))
        /\ clock' = now
        /\ lastCall' = [op |-> "save", url |-> UrlOf(i), path |-> "",
                        now |-> now, name |-> NameOf(i), description |-> desc,
                        before |-> table]
        /\ UNCHANGED <<slugVars, drvVars, capVars>>

\* update_screenshot_path(repo_url, path): lines 59-72
DbUpdate(i, path) ==
    /\ table' = UpdateRows(table, UrlOf(i), path)
    /\ lastCall' = [op |-> "update", url |-> UrlOf(i), path |-> path,
                    now |-> clock, name |-> "", description |-> "",
                    before |-> table]
    /\ UNCHANGED <<clock, slugVars, drvVars, capVars>>

InitDb == /\ table \in InitTables
          /\ DbIdle /\ SlugIdle /\ DrvIdle /\ CapIdle

NextDb == \/ \E i \in DbUrls, desc \in DbDescriptions : DbSave(i, desc)
          \/ \E i \in DbUrls, path \in DbPaths : DbUpdate(i, path)

SpecDb == InitDb /\ [][NextDb]_vars

(***************************************************************************)
(* SpecSlug: the file name computation applied to urls.                    *)
(***************************************************************************)
TailChars == {"a", "/", ":", ".", "-", "_"}
SchemeHost == <<"s", ":", "/", "/", "h">>

RECURSIVE Strings(_)
\* all strings over TailChars of length at most n
Strings(n) ==
    IF n = 0 THEN {<<>>}
    ELSE LET shorter == Strings(n - 1) IN
         shorter \cup {Append(s, c) : s \in shorter, c \in TailChars}

\* urls with a scheme and a host, and strings without
SlugInputs == {pre \o tl : pre \in {<<>>, SchemeHost}, tl \in Strings(MaxTail)}

\* lines 158-160 of capture_readme_screenshot
ComputeSlug ==
    /\ slugOut = Unbound
    /\ slugOut' = ScreenshotPathOf(slugUrl)
    /\ UNCHANGED <<slugUrl, dbVars, drvVars, capVars>>

InitSlug == /\ slugUrl \in SlugInputs
            /\ slugOut = Unbound
            /\ table = {}
            /\ DbIdle /\ DrvIdle /\ CapIdle

NextSlug == ComputeSlug

SpecSlug == InitSlug /\ [][NextSlug]_vars

(***************************************************************************)
(* capture_readme_screenshot (lines 142-301), one action per step.  Each   *)
(* call into Playwright, PIL or the file system either returns or raises.  *)
(***************************************************************************)
\* padding = 2 (line 213)
Padding == 2

\* selectors_to_try (lines 162-165)
Selectors == <<"#readme article.markdown-body",
               "article.markdown-body[itemprop='text']",
               "div.markdown-body.entry-content">>

Modes == {"RGB", "RGBA", "P", "L", "LA"}

\* sizes of the decoded screenshot, the two worked examples among them
Dims == ((0..MaxW) \X (0..MaxH)) \cup {<<800, 1000>>, <<400, 200>>}

Images == {[mode |-> m, w |-> d[1], h |-> d[2]] : m \in Modes, d \in Dims}

\* a 3:4 slip: the ratio applied the wrong way round
TargetHeightInverted(new_width) == (new_width * 4) \div 3

\* target_height = int(new_width * 3 / 4) (line 243), new_width >= 0
TargetHeight(new_width) == (new_width * 3) \div 4

\* the size check dropped
DimsInvalidNever(w, h) == FALSE

\* original_width <= 0 or original_height <= 0 (line 209)
DimsInvalid(w, h) == w <= 0 \/ h <= 0

\* the modes lines 219-227 convert
NeedsConvert(mode) == mode \in {"P", "L", "LA"}

\* the loop going on after a match: the "break" of line 185 missing
NextAfterMatchNoBreak(i) == IF i = Len(Selectors) THEN "after_select" ELSE "select"

\* where the selector loop goes after a match: "break" (line 185)
NextAfterMatch(i) == "after_select"

\* the handler re-raising: line 300 uncommented
HandlerOutcomeReraise == "raise"

\* how the handler of lines 289-301 ends: "return None" (line 301)
HandlerOutcome == "return"

\* img.close() on the buffer a local names; nothing for an unbound local
CloseBuf(bs, name) == IF name \in Buffers THEN [bs EXCEPT ![name] = "closed"] ELSE bs

\* an exception raised inside the "with sync_playwright()" block: the block is
\* left, which stops Playwright, and control reaches the handler of line 289.
\* Whether the stopped Playwright still reports the browser as connected is
\* the library's business: both answers are possible.
RaiseInWith(kind) ==
    /\ failed' = kind
    /\ pwRunning' = FALSE
    /\ \E still \in BOOLEAN : connected' = (connected /\ still)
    /\ cpc' = "handler"

CapFrame == UNCHANGED <<dbVars, slugVars, drvVars, repo_url>>

\* lines 154-169: the locals, the file name, os.makedirs
CapPrepare ==
    /\ cpc = "prepare"
    /\ \E ok \in BOOLEAN :
        IF ok THEN /\ cpc' = "enter"
                   /\ failed' = failed
              ELSE /\ cpc' = "handler"
                   /\ failed' = "makedirs"
    /\ UNCHANGED <<sessVars, locVars, imgVars, saved_path, written, retval, raised>>
    /\ CapFrame

\* line 171: entering "with sync_playwright() as p"
CapEnter ==
    /\ cpc = "enter"
    /\ \E ok \in BOOLEAN :
        IF ok THEN /\ cpc' = "launch"
                   /\ pwRunning' = TRUE
                   /\ failed' = failed
              ELSE /\ cpc' = "handler"
                   /\ pwRunning' = FALSE
                   /\ failed' = "playwright"
    /\ UNCHANGED <<browser, connected, closeCalls, locVars, imgVars,
                   saved_path, written, retval, raised>>
    /\ CapFrame

\* line 172: browser = p.chromium.launch()
CapLaunch ==
    /\ cpc = "launch"
    /\ \E ok \in BOOLEAN :
        IF ok THEN /\ browser' = idx
                   /\ connected' = TRUE
                   /\ cpc' = "goto"
                   /\ UNCHANGED <<pwRunning, failed>>
              ELSE /\ browser' = browser
                   /\ RaiseInWith("launch")
    /\ UNCHANGED <<closeCalls, locVars, imgVars, saved_path, written, retval, raised>>
    /\ CapFrame

\* lines 173-176: new_page and page.goto with its 90 s timeout
CapGoto ==
    /\ cpc = "goto"
    /\ \E ok \in BOOLEAN :
        IF ok THEN /\ navigated' = TRUE
                   /\ cpc' = "select"
                   /\ UNCHANGED <<pwRunning, connected, failed>>
              ELSE /\ navigated' = FALSE
                   /\ RaiseInWith("navigation")
    /\ UNCHANGED <<browser, closeCalls, attempts, readme_element, shotTaken,
                   imgVars, saved_path, written, retval, raised>>
    /\ CapFrame

\* lines 179-188: one turn of the selector loop.  wait_for_selector returns
\* the element or raises; line 187 prints the first line of the exception's
\* text and itself raises IndexError when that text is empty.
CapTrySelector ==
    /\ cpc = "select"
    /\ LET i == Len(attempts) + 1 IN
        \E outcome \in {"found", "failed", "failed_no_text"} :
            /\ attempts' = Append(attempts, [selector |-> Selectors[i],
                                             found |-> outcome = "found"])
            /\ IF outcome = "found"
               THEN /\ readme_element' = i
                    /\ cpc' = NextAfterMatch(i)
                    /\ UNCHANGED <<pwRunning, connected, failed>>
               ELSE IF outcome = "failed"
               THEN /\ readme_element' = 0
                    /\ cpc' = IF i = Len(Selectors) THEN "after_select" ELSE "select"
                    /\ UNCHANGED <<pwRunning, connected, failed>>
               ELSE /\ readme_element' = readme_element
                    /\ RaiseInWith("selector_message")
    /\ UNCHANGED <<browser, closeCalls, shotTaken, navigated, imgVars,
                   saved_path, written, retval, raised>>
    /\ CapFrame

\* lines 190, 280-281: no element, nothing to capture
CapNoRegion ==
    /\ cpc = "after_select"
    /\ readme_element = 0
    /\ failed' = "no_region"
    /\ cpc' = "close"
    /\ UNCHANGED <<sessVars, locVars, imgVars, saved_path, written, retval, raised>>
    /\ CapFrame

\* lines 190-194: the screenshot of the element
CapScreenshot ==
    /\ cpc = "after_select"
    /\ readme_element # 0
    /\ shotTaken' = TRUE
    /\ \E ok \in BOOLEAN :
        IF ok THEN /\ cpc' = "decode"
                   /\ UNCHANGED <<pwRunning, connected, failed>>
              ELSE RaiseInWith("screenshot")
    /\ UNCHANGED <<browser, closeCalls, attempts, readme_element, navigated,
                   imgVars, saved_path, written, retval, raised>>
    /\ CapFrame

\* lines 200-206: Image.open.  When it raises, matching the exception against
\* "except UnidentifiedImageError" (a name the module never imports) raises
\* NameError, which leaves the with block.
CapDecode ==
    /\ cpc = "decode"
    /\ \/ \E im \in Images :
            /\ imgIn' = im
            /\ img' = "decoded"
            /\ bufState' = [bufState EXCEPT !["decoded"] = "open"]
            /\ bufSize' = [bufSize EXCEPT !["decoded"] = <<im.w, im.h>>]
            /\ cpc' = "validate"
            /\ UNCHANGED <<pwRunning, connected, failed>>
       \/ /\ RaiseInWith("decode")
          /\ UNCHANGED <<imgIn, img, bufState, bufSize>>
    /\ UNCHANGED <<browser, closeCalls, locVars, img_to_paste, bordered_img,
                   final_img, saved_path, written, retval, raised>>
    /\ CapFrame

\* lines 207-218: the size check
CapValidate ==
    /\ cpc = "validate"
    /\ IF DimsInvalid(imgIn.w, imgIn.h)
       THEN /\ bufState' = CloseBuf(bufState, img)
            /\ failed' = "dimensions"
            /\ cpc' = "final_check"
            /\ UNCHANGED img_to_paste
       ELSE /\ img_to_paste' = img
            /\ cpc' = "convert"
            /\ UNCHANGED <<bufState, failed>>
    /\ UNCHANGED <<sessVars, locVars, imgIn, img, bordered_img, final_img,
                   bufSize, saved_path, written, retval, raised>>
    /\ CapFrame

\* lines 217-232: img.convert for the modes P, L and LA, outside the inner try
CapConvert ==
    /\ cpc = "convert"
    /\ IF NeedsConvert(imgIn.mode)
       THEN \E ok \in BOOLEAN :
            IF ok THEN /\ img' = "converted"
                       /\ bufState' = [bufState EXCEPT !["converted"] = "open"]
                       /\ bufSize' = [bufSize EXCEPT !["converted"] = bufSize[img]]
                       /\ cpc' = "canvas"
                       /\ UNCHANGED <<pwRunning, connected, failed>>
                  ELSE /\ RaiseInWith("convert")
                       /\ UNCHANGED <<img, bufState, bufSize>>
       ELSE /\ cpc' = "canvas"
            /\ UNCHANGED <<img, bufState, bufSize, pwRunning, connected, failed>>
    /\ UNCHANGED <<browser, closeCalls, locVars, imgIn, img_to_paste,
                   bordered_img, final_img, saved_path, written, retval, raised>>
    /\ CapFrame

\* lines 234-235: the white canvas, new_width by original_height
CapCanvas ==
    /\ cpc = "canvas"
    /\ \E ok \in BOOLEAN :
        IF ok THEN /\ bordered_img' = "bordered"
                   /\ bufState' = [bufState EXCEPT !["bordered"] = "open"]
                   /\ bufSize' = [bufSize EXCEPT
                                    !["bordered"] = <<imgIn.w + 2 * Padding, imgIn.h>>]
                   /\ cpc' = "paste"
                   /\ failed' = failed
              ELSE /\ cpc' = "img_except"
                   /\ failed' = "canvas"
                   /\ UNCHANGED <<bordered_img, bufState, bufSize>>
    /\ UNCHANGED <<sessVars, locVars, imgIn, img, img_to_paste, final_img,
                   saved_path, written, retval, raised>>
    /\ CapFrame

\* lines 238-240: paste, then close the pasted image and the original
CapPaste ==
    /\ cpc = "paste"
    /\ \E ok \in BOOLEAN :
        IF ok THEN /\ bufState' = CloseBuf(CloseBuf(bufState, img), img_to_paste)
                   /\ cpc' = "crop"
                   /\ failed' = failed
              ELSE /\ cpc' = "img_except"
                   /\ failed' = "paste"
                   /\ UNCHANGED bufState
    /\ UNCHANGED <<sessVars, locVars, imgIn, img, img_to_paste, bordered_img,
                   final_img, bufSize, saved_path, written, retval, raised>>
    /\ CapFrame

\* lines 243-255: the crop from the top, only when the image is too tall
CapCrop ==
    /\ cpc = "crop"
    /\ LET new_width == imgIn.w + 2 * Padding
           target_height == TargetHeight(new_width) IN
       IF imgIn.h > target_height
       THEN \E ok \in BOOLEAN :
            IF ok THEN /\ final_img' = "cropped"
                       /\ bufState' = [bufState EXCEPT !["cropped"] = "open"]
                       /\ bufSize' = [bufSize EXCEPT
                                        !["cropped"] = <<new_width, target_height>>]
                       /\ cpc' = "save"
                       /\ failed' = failed
                  ELSE /\ cpc' = "img_except"
                       /\ failed' = "crop"
                       /\ UNCHANGED <<final_img, bufState, bufSize>>
       ELSE /\ final_img' = bordered_img
            /\ cpc' = "save"
            /\ UNCHANGED <<bufState, bufSize, failed>>
    /\ UNCHANGED <<sessVars, locVars, imgIn, img, img_to_paste, bordered_img,
                   saved_path, written, retval, raised>>
    /\ CapFrame

\* lines 257-261: save, then close the final and the bordered image.  A save
\* that raises may leave an incomplete file behind.
CapSave ==
    /\ cpc = "save"
    /\ LET path == ScreenshotPathOf(repo_url) IN
       \/ /\ written' = written \cup
                 {[path |-> path, size |-> bufSize[final_img], complete |-> TRUE]}
          /\ saved_path' = path
          /\ bufState' = CloseBuf(CloseBuf(bufState, final_img), bordered_img)
          /\ cpc' = "final_check"
          /\ failed' = failed
       \/ /\ \E partial \in BOOLEAN :
                written' = IF partial
                           THEN written \cup {[path |-> path, size |-> <<0, 0>>,
                                               complete |-> FALSE]}
                           ELSE written
          /\ cpc' = "img_except"
          /\ failed' = "save"
          /\ UNCHANGED <<saved_path, bufState>>
    /\ UNCHANGED <<sessVars, locVars, imgIn, img, img_to_paste, bordered_img,
                   final_img, bufSize, retval, raised>>
    /\ CapFrame

\* lines 263-269: the inner handler closes every image local that is bound
CapImgExcept ==
    /\ cpc = "img_except"
    /\ bufState' = CloseBuf(CloseBuf(CloseBuf(CloseBuf(bufState, img), img_to_paste),
                                     bordered_img), final_img)
    /\ cpc' = "final_check"
    /\ UNCHANGED <<sessVars, locVars, imgIn, img, img_to_paste, bordered_img,
                   final_img, bufSize, outVars>>
    /\ CapFrame

\* lines 271-275: the last close of img_to_paste, when that local is bound
CapFinalCheck ==
    /\ cpc = "final_check"
    /\ bufState' = CloseBuf(bufState, img_to_paste)
    /\ cpc' = "close"
    /\ UNCHANGED <<sessVars, locVars, imgIn, img, img_to_paste, bordered_img,
                   final_img, bufSize, outVars>>
    /\ CapFrame

\* lines 283-287: browser.close(), browser = None, return saved_path.  A close
\* that raises leaves "browser" set and goes to the handler of line 289; so
\* does, with "browser" already None, a Playwright that raises while the with
\* block is left by the return.
CapClose ==
    /\ cpc = "close"
    /\ closeCalls' = closeCalls + 1
    /\ \E outcome \in {"closed", "closed_stop_raises", "raises"} :
        IF outcome = "closed"
        THEN /\ connected' = FALSE
             /\ browser' = 0
             /\ pwRunning' = FALSE
             /\ retval' = saved_path
             /\ cpc' = "returned"
             /\ failed' = failed
        ELSE IF outcome = "closed_stop_raises"
        THEN /\ connected' = FALSE
             /\ browser' = 0
             /\ pwRunning' = FALSE
             /\ retval' = retval
             /\ cpc' = "handler"
             /\ failed' = "playwright_stop"
        ELSE /\ RaiseInWith("close")
             /\ UNCHANGED <<browser, retval>>
    /\ UNCHANGED <<locVars, imgVars, saved_path, written, raised>>
    /\ CapFrame

\* lines 289-301: the handler closes a browser that is set and connected,
\* swallows what that close raises, and returns None
CapHandler ==
    /\ cpc = "handler"
    /\ IF browser # 0 /\ connected
       THEN /\ closeCalls' = closeCalls + 1
            /\ \E ok \in BOOLEAN : connected' = (connected /\ ~ok)
       ELSE UNCHANGED <<closeCalls, connected>>
    /\ IF HandlerOutcome = "return"
       THEN /\ retval' = None
            /\ raised' = FALSE
            /\ cpc' = "returned"
       ELSE /\ retval' = retval
            /\ raised' = TRUE
            /\ cpc' = "raised"
    /\ UNCHANGED <<browser, pwRunning, locVars, imgVars, saved_path, written, failed>>
    /\ CapFrame

CapNext ==
    \/ CapPrepare \/ CapEnter \/ CapLaunch \/ CapGoto \/ CapTrySelector
    \/ CapNoRegion \/ CapScreenshot \/ CapDecode \/ CapValidate \/ CapConvert
    \/ CapCanvas \/ CapPaste \/ CapCrop \/ CapSave \/ CapImgExcept
    \/ CapFinalCheck \/ CapClose \/ CapHandler

(***************************************************************************)
(* The driver, __main__ (lines 304-342).                                   *)
(***************************************************************************)
\* trending_repos_data[:3] (line 321)
SelectLimit == 3

\* len(repos_to_process)
NumToProcess == IF candidates < SelectLimit THEN candidates ELSE SelectLimit

\* the description the trending page shows for the i-th repo
TrendingDescription == "trending text"

\* lines 305-309: init_db leaves an existing table as it is; the trending page
\* yields some repos, each url once
DrvStart ==
    /\ dpc = "start"
    /\ \E n \in 0..MaxRepos :
        /\ candidates' = n
        /\ dpc' = IF n = 0 THEN "done" ELSE "saving"
    /\ idx' = 1
    /\ UNCHANGED <<results, tableAtCapture, dbVars, slugVars, capVars>>

\* lines 313-314: one turn of the save loop, the clock having advanced since
\* the turn before; after the last turn, line 321
DrvSave ==
    /\ dpc = "saving"
    /\ LET now == IF clock < MaxClock THEN clock + 1 ELSE clock IN
        /\ table' = SaveRows(table, RepoOf(idx, TrendingDescription), IsoFormat(now))
        /\ clock' = now
    /\ IF idx = candidates
       THEN /\ dpc' = "capturing"
            /\ idx' = 1
            /\ tableAtCapture' = table'
       ELSE /\ idx' = idx + 1
            /\ UNCHANGED <<dpc, tableAtCapture>>
    /\ UNCHANGED <<lastCall, candidates, results, slugVars, capVars>>

\* the locals of capture_readme_screenshot before line 154 and after return
NoLocals ==
    /\ browser' = 0 /\ connected' = FALSE /\ pwRunning' = FALSE /\ closeCalls' = 0
    /\ attempts' = <<>> /\ readme_element' = 0
    /\ shotTaken' = FALSE /\ navigated' = FALSE
    /\ imgIn' = NoImage
    /\ img' = Unbound /\ img_to_paste' = Unbound
    /\ bordered_img' = Unbound /\ final_img' = Unbound
    /\ bufState' = [b \in Buffers |-> "none"]
    /\ bufSize' = [b \in Buffers |-> <<0, 0>>]
    /\ saved_path' = None /\ written' = {} /\ retval' = Unbound
    /\ failed' = ""

\* lines 326-330: the call of capture_readme_screenshot(url)
DrvCallCapture ==
    /\ dpc = "capturing"
    /\ cpc = "idle"
    /\ cpc' = "prepare"
    /\ repo_url' = UrlOf(idx)
    /\ UNCHANGED <<dbVars, slugVars, drvVars, sessVars, locVars, imgVars, outVars>>

\* lines 330-338: the result of the call; an exception that left the call
\* ends the run, a path is stored, and the loop goes on after time.sleep(5)
DrvAfterCapture ==
    /\ dpc = "capturing"
    /\ cpc \in {"returned", "raised"}
    /\ IF raised
       THEN /\ dpc' = "crashed"
            /\ UNCHANGED <<table, idx, results>>
       ELSE /\ results' = Append(results, retval)
            /\ table' = IF ~Falsy(retval)
                        THEN UpdateRows(table, repo_url, retval)
                        ELSE table
            /\ idx' = idx + 1
            /\ dpc' = IF idx = NumToProcess THEN "done" ELSE "capturing"
    /\ cpc' = "idle"
    /\ NoLocals
    /\ UNCHANGED <<clock, lastCall, candidates, tableAtCapture, slugVars,
                   repo_url, raised>>

\* the database file at start for the driver's runs
InitTablesRun ==
    {{}} \cup {{r} : r \in {o \in OldRows :
                    \/ o.stars = NULL /\ o.created_at = NULL
                       /\ o.twitter_handle = NULL /\ o.screenshot_path = NULL
                    \/ o.stars # NULL /\ o.created_at # NULL
                       /\ o.twitter_handle # NULL /\ o.screenshot_path # NULL}}

Init == /\ table \in InitTablesRun
        /\ DbIdle /\ SlugIdle /\ DrvIdle /\ CapIdle

Next == \/ DrvStart \/ DrvSave \/ DrvCallCapture \/ DrvAfterCapture
        \/ CapNext

Spec == Init /\ [][Next]_vars

(***************************************************************************)
(* Properties.                                                             *)
(***************************************************************************)
\* the rows of table t keyed by url u
RowsOf(t, u) == {r \in t : r.url = u}

\* C1: after save_repo_to_db on a url, exactly one row has that url; its name,
\* description_trending_page and last_seen_trending are the incoming values
\* and the call-time timestamp; its stars, created_at, twitter_handle and
\* screenshot_path are those stored before the call, and are NULL when the
\* url had no row.
C1_UpsertKeepsEnrichment ==
    lastCall.op = "save" =>
        LET now == RowsOf(table, lastCall.url)
            old == RowsOf(lastCall.before, lastCall.url) IN
        /\ Cardinality(now) = 1
        /\ lastCall.now = clock
        /\ \A r \in now :
            /\ r.name = lastCall.name
            /\ r.description_trending_page = lastCall.description
            /\ r.last_seen_trending = IsoFormat(lastCall.now)
            /\ old = {} => /\ r.stars = NULL
                           /\ r.created_at = NULL
                           /\ r.twitter_handle = NULL
                           /\ r.screenshot_path = NULL
            /\ \A o \in old : /\ r.stars = o.stars
                              /\ r.created_at = o.created_at
                              /\ r.twitter_handle = o.twitter_handle
                              /\ r.screenshot_path = o.screenshot_path

\* C1 witness: a save on a url whose row was enriched and had been given a
\* screenshot path by update_screenshot_path, with a different name stored
C1_Witness ==
    /\ lastCall.op = "save"
    /\ \E o \in lastCall.before :
        /\ o.url = lastCall.url
        /\ o.stars = "42"
        /\ o.twitter_handle = "@handle"
        /\ o.screenshot_path = "screenshots/p1.png"
        /\ o.name # lastCall.name

\* C5: update_screenshot_path changes nothing when path is empty or no row has
\* the url; otherwise it sets that row's screenshot_path to path and leaves
\* the row's other fields and every other row as they were.
C5_UpdateTouchesOnlyPath ==
    lastCall.op = "update" =>
        LET before == lastCall.before IN
        IF lastCall.path = "" \/ lastCall.path = None
           \/ RowsOf(before, lastCall.url) = {}
        THEN table = before
        ELSE /\ Cardinality(table) = Cardinality(before)
             /\ \A o \in before :
                 IF o.url # lastCall.url THEN o \in table
                 ELSE \E r \in table :
                        /\ r.url = o.url
                        /\ r.screenshot_path = lastCall.path
                        /\ r.name = o.name
                        /\ r.description_trending_page = o.description_trending_page
                        /\ r.last_seen_trending = o.last_seen_trending
                        /\ r.stars = o.stars
                        /\ r.created_at = o.created_at
                        /\ r.twitter_handle = o.twitter_handle

\* C5 witness: an update with a new path on a row that held another path,
\* with a second row in the table
C5_Witness ==
    /\ lastCall.op = "update"
    /\ lastCall.path = "screenshots/p2.png"
    /\ GoneRow \in lastCall.before /\ GoneRow \in table
    /\ \E o \in lastCall.before :
        /\ o.url = lastCall.url
        /\ o.screenshot_path = "screenshots/p1.png"
        /\ o.stars = "42"

\* whether sequence p is a prefix of sequence s
IsPrefix(p, s) == Len(p) <= Len(s) /\ SubSeq(s, 1, Len(p)) = p

\* the segments of the path component of a url: what follows scheme and host
UrlPathSegments(url) ==
    IF IsPrefix(SchemeHost, url)
    THEN RepoParts(SubSeq(url, Len(SchemeHost) + 1, Len(url)))
    ELSE RepoParts(url)

\* the file name built from a sequence of segments, as the spec words it
NameFromSegments(segs, url) ==
    IF Len(segs) >= 2
    THEN segs[Len(segs) - 1] \o <<"_">> \o segs[Len(segs)]
    ELSE Sanitize(url, FALSE)

\* C8 as stated: the slug is made of the last two path segments of the url
\* when its path has at least two, and is the sanitized url otherwise.
C8_SlugFromUrlPathSegments ==
    slugOut # Unbound =>
        slugOut = OutputDir \o "/"
                  \o Flatten(NameFromSegments(UrlPathSegments(slugUrl), slugUrl))
                  \o "_readme_4x3.png"

\* C8 amended: the segments are the non-empty pieces between the '/' of the
\* whole url string, scheme and host included; with at least two pieces the
\* slug is the last two joined by '_', with fewer it is the url with every run
\* of characters other than word characters and '-' replaced by '_'.
C8_SlugFromSlashPieces ==
    slugOut # Unbound =>
        slugOut = OutputDir \o "/"
                  \o Flatten(NameFromSegments(RepoParts(slugUrl), slugUrl))
                  \o "_readme_4x3.png"

\* C8 witness: a url with scheme, host and one path segment, named after
\* its host and that segment
C8_Witness ==
    /\ slugUrl = SchemeHost \o <<"/", "a">>
    /\ slugOut = "screenshots/h_a_readme_4x3.png"

\* C2: a decoded screenshot of positive width and height is saved with width
\* original_width + 2*2 and, with target_height = floor(new_width * 3 / 4)
\* (the t with 4t <= 3*new_width < 4(t+1)), height target_height when
\* original_height > target_height and original_height otherwise;
\* 800x1000 gives 804x603, 400x200 gives 404x200.
C2_ComposedSize ==
    \A f \in written :
        (f.complete /\ imgIn.w > 0 /\ imgIn.h > 0) =>
            LET new_width == imgIn.w + 4
                out == f.size[2] IN
            /\ f.size[1] = new_width
            /\ IF 4 * imgIn.h > 3 * new_width
               THEN 4 * out <= 3 * new_width /\ 3 * new_width < 4 * (out + 1)
               ELSE out = imgIn.h
            /\ out <= imgIn.h /\ 4 * out <= 3 * new_width
            /\ (imgIn.w = 800 /\ imgIn.h = 1000) => f.size = <<804, 603>>
            /\ (imgIn.w = 400 /\ imgIn.h = 200) => f.size = <<404, 200>>

\* C2 witness: the 800x1000 screenshot saved as 804x603
C2_Witness ==
    /\ imgIn.w = 800 /\ imgIn.h = 1000
    /\ \E f \in written : f.complete /\ f.size = <<804, 603>>

\* C3: no exception leaves capture_readme_screenshot; a call in which any step
\* failed returns None; and after a capture that returned None the driver's
\* next step moves to the next repo, whose capture is then the step taken.
C3_FailuresStayInTheCall ==
    [][/\ ~raised' /\ dpc' # "crashed"
       /\ (cpc' = "returned" /\ failed' # "") => retval' = None
       /\ (cpc = "returned" /\ retval = None /\ idx < NumToProcess)
            => (dpc' = "capturing" /\ cpc' = "idle" /\ idx' = idx + 1)
       /\ (dpc = "capturing" /\ cpc = "idle")
            => (cpc' = "prepare" /\ repo_url' = UrlOf(idx))]_vars

\* C3 witness: the third repo's capture under way after the captures of the
\* first and of the second both returned None
C3_Witness ==
    /\ dpc = "capturing" /\ idx = 3 /\ cpc = "goto"
    /\ results = <<None, None>>

\* C4: the selectors are tried in their declared order, one is tried only
\* after every earlier one failed, none is tried after a match, and when all
\* three fail no screenshot is taken and the call returns None.
C4_SelectorsInOrder ==
    /\ Len(attempts) <= Len(Selectors)
    /\ \A k \in 1..Len(attempts) :
        /\ attempts[k].selector = Selectors[k]
        /\ k < Len(attempts) => ~attempts[k].found
    /\ shotTaken => (Len(attempts) > 0 /\ attempts[Len(attempts)].found)
    /\ (Len(attempts) = 3 /\ \A k \in 1..3 : ~attempts[k].found) =>
        /\ ~shotTaken
        /\ written = {}
        /\ cpc # "raised"
        /\ cpc = "returned" => retval = None
    /\ Selectors = <<"#readme article.markdown-body",
                     "article.markdown-body[itemprop='text']",
                     "div.markdown-body.entry-content">>

\* C4 witness: a capture that matched on the second selector and returned a path
C4_Witness ==
    /\ cpc = "returned" /\ retval # None
    /\ Len(attempts) = 2 /\ attempts[2].found /\ shotTaken

\* whether this call got as far as holding a browser session
SessionAcquired == failed \notin {"makedirs", "playwright", "launch"}

\* C6: a call that acquired a browser session has, when it returns, released
\* it exactly once: browser.close() was not called twice, and the session was
\* closed or is no longer connected.
C6_SessionReleasedOnce ==
    (cpc = "returned" /\ SessionAcquired) =>
        /\ closeCalls <= 1
        /\ closeCalls = 1 \/ ~connected

\* C7: a call writes at most one file, only after navigation, region
\* resolution, decoding, the size check and the composition succeeded, and
\* returns a path only when that write completed; with a non-positive width
\* or height, no region, or a failed navigation, nothing is written and no
\* path is returned.
C7_OneWriteAfterEverything ==
    /\ Cardinality(written) <= 1
    /\ written # {} =>
        /\ navigated /\ readme_element # 0 /\ shotTaken
        /\ bufState["decoded"] # "none"
        /\ imgIn.w > 0 /\ imgIn.h > 0
        /\ bufState["bordered"] # "none"
        /\ final_img \in {"bordered", "cropped"}
    /\ (cpc = "returned" /\ retval # None) =>
        \E f \in written : f.path = retval /\ f.complete
    /\ (cpc = "returned"
        /\ (~navigated \/ readme_element = 0 \/ imgIn.w <= 0 \/ imgIn.h <= 0)) =>
        /\ written = {}
        /\ retval = None

\* C7 witness: a call that returned the path of the one complete file it wrote
C7_Witness ==
    /\ cpc = "returned"
    /\ retval = ScreenshotPathOf(repo_url)
    /\ \E f \in written : f.complete /\ written = {f}

\* C9: every image buffer created during a call is closed when the call returns.
C9_BuffersClosedAtReturn ==
    cpc = "returned" => \A b \in Buffers : bufState[b] # "open"

\* the row of the i-th repo in table t
RowOfRepo(t, i) == CHOOSE r \in t : r.url = UrlOf(i)

\* C10: every repo found is in the table before the first capture begins; a
\* row's screenshot_path changes during the capture phase only after that
\* repo's capture returned a non-empty path; at the end of the run the row of
\* a captured repo holds the returned path and every other row holds the
\* screenshot_path it had when the capture phase began.
C10_PathsFollowCaptures ==
    (dpc \in {"capturing", "done"} /\ candidates > 0) =>
        \A i \in 1..candidates :
            LET url == UrlOf(i)
                captured == i <= Len(results) /\ ~(results[i] \in {None, ""}) IN
            /\ Cardinality(RowsOf(table, url)) = 1
            /\ Cardinality(RowsOf(tableAtCapture, url)) = 1
            /\ RowOfRepo(table, i).screenshot_path
                    # RowOfRepo(tableAtCapture, i).screenshot_path => captured
            /\ dpc = "done" =>
                /\ Len(results) = NumToProcess
                /\ RowOfRepo(table, i).screenshot_path =
                     IF captured THEN results[i]
                     ELSE RowOfRepo(tableAtCapture, i).screenshot_path

\* C10 witness: a finished run of four repos, the first failed and keeping the
\* path of an earlier run, the second captured, the fourth not selected
C10_Witness ==
    /\ dpc = "done" /\ candidates = 4
    /\ results[1] = None /\ results[2] # None
    /\ RowOfRepo(table, 1).screenshot_path = "screenshots/old.png"
    /\ RowOfRepo(table, 2).screenshot_path = results[2]
    /\ RowOfRepo(table, 4).screenshot_path = NULL

====
